---------------------------- MODULE Spec2Model ----------------------------
(***************************************************************************)
(* A model of the xutils-go packages: xrest (request dispatcher with a     *)
(* process-wide mock registry), xlogger (levelled logger, instance and     *)
(* process-wide singleton variants) and xerrors (the RestErr value and its *)
(* JSON form).                                                             *)
(*                                                                         *)
(* Go strings and byte slices are sequences of byte values 0..255, so that *)
(* concatenation, escaping and UTF-8 decoding are computed, not assumed.   *)
(* Each package has its own specification; the variables of the other      *)
(* packages stay at their initial values in it:                            *)
(*   Spec      xrest, calls made one after another                         *)
(*   SpecConc  xrest, calls made by several goroutines                     *)
(*   SpecLog   xlogger                                                     *)
(*   SpecErr   xerrors                                                     *)
(***************************************************************************)
EXTENDS Integers, Sequences, FiniteSets, TLC

VARIABLES
    \* xrest, sequential
    enabledMocks,   \* var enabledMocks
    mocks,          \* var mocks: map from mock id to Mock
    last,           \* the last call made and what it gave back to its caller
    added,          \* history: (method, url) -> the Mock last passed to AddMock
                    \* for that pair since the last FlushMockups
    \* xrest, concurrent
    cEnabled,       \* var enabledMocks
    cMocksVar,      \* var mocks: the address of the current map
    cHeap,          \* the maps allocated so far, by address
    cPc,            \* each goroutine's position
    cLocal,         \* each goroutine's locals
    cCrashed,       \* the runtime has thrown a fatal error
    \* xlogger
    logger,         \* the configured logger
    sinks,          \* what each sink has received
    calls,          \* history: the logging calls made
    alive,          \* the process has not exited
    \* xerrors
    errVal,         \* a restErr value
    errBytes,       \* its JSON form
    errParsed,      \* what NewRestErrorFromBytes gave back
    errPc

restVars == <<enabledMocks, mocks, last, added>>
concVars == <<cEnabled, cMocksVar, cHeap, cPc, cLocal, cCrashed>>
logVars  == <<logger, sinks, calls, alive>>
errVars  == <<errVal, errBytes, errParsed, errPc>>
vars     == <<restVars, concVars, logVars, errVars>>

Nil == "nil"

-----------------------------------------------------------------------------
(* Bounds *)

\* AddMock is not taken once the registry holds this many entries
MaxMocks == 2

\* the logging calls made on one logger
MaxCalls == 3

\* the longest RestErr message, in bytes
MaxMsgLen == 2

\* the maps FlushMockups may have made, the first one included
MaxMaps == 3

-----------------------------------------------------------------------------
(* encoding/json and unicode/utf8, as far as the packages use them *)

RECURSIVE Digits(_)
Digits(n) ==
    IF n < 10 THEN <<48 + n>> ELSE Digits(n \div 10) \o <<48 + (n % 10)>>

\* strconv.AppendInt(b, n, 10)
IntText(n) == IF n < 0 THEN <<45>> \o Digits(-n) ELSE Digits(n)

\* "true" / "false"
BoolText(b) == IF b THEN <<116, 114, 117, 101>> ELSE <<102, 97, 108, 115, 101>>

\* "null"
NullText == <<110, 117, 108, 108>>

IsCont(s, i) == i <= Len(s) /\ s[i] >= 128 /\ s[i] <= 191

\* utf8.DecodeRune: the length of the valid encoding that starts at s[i], or 0
\* when the bytes there are no valid encoding (RuneError, width 1)
RuneLen(s, i) ==
    LET b0 == s[i]
        b1 == IF i + 1 <= Len(s) THEN s[i + 1] ELSE 0
    IN  IF b0 < 128 THEN 1
        ELSE IF b0 >= 194 /\ b0 <= 223
             THEN IF IsCont(s, i + 1) THEN 2 ELSE 0
        ELSE IF b0 >= 224 /\ b0 <= 239
             THEN IF /\ IsCont(s, i + 1) /\ IsCont(s, i + 2)
                     /\ (b0 = 224 => b1 >= 160)
                     /\ (b0 = 237 => b1 <= 159)
                  THEN 3 ELSE 0
        ELSE IF b0 >= 240 /\ b0 <= 244
             THEN IF /\ IsCont(s, i + 1) /\ IsCont(s, i + 2) /\ IsCont(s, i + 3)
                     /\ (b0 = 240 => b1 >= 144)
                     /\ (b0 = 244 => b1 <= 143)
                  THEN 4 ELSE 0
        ELSE 0

RECURSIVE ValidFrom(_, _)
ValidFrom(s, i) ==
    IF i > Len(s) THEN TRUE
    ELSE LET n == RuneLen(s, i) IN n > 0 /\ ValidFrom(s, i + n)

\* utf8.Valid
ValidUTF8(s) == ValidFrom(s, 1)

HexDigit(v) == IF v < 10 THEN 48 + v ELSE 97 + (v - 10)

\* \u00XX for a byte below 0x80
U00(b) == <<92, 117, 48, 48, HexDigit(b \div 16), HexDigit(b % 16)>>

\* the escape of U+FFFD, the replacement rune
UFFFD == <<92, 117, 102, 102, 102, 100>>

\* U+2028 and U+2029 are E2 80 A8 and E2 80 A9
IsLineSep(s, i) == s[i] = 226 /\ s[i + 1] = 128 /\ s[i + 2] \in {168, 169}

RECURSIVE EscapeFrom(_, _)
EscapeFrom(s, i) ==
    IF i > Len(s) THEN <<>>
    ELSE LET b == s[i] IN
         IF b < 128
         THEN (IF b = 34 \/ b = 92 THEN <<92, b>>
               ELSE IF b = 10 THEN <<92, 110>>
               ELSE IF b = 13 THEN <<92, 114>>
               ELSE IF b = 9 THEN <<92, 116>>
               ELSE IF b < 32 \/ b \in {60, 62, 38} THEN U00(b)
               ELSE <<b>>) \o EscapeFrom(s, i + 1)
         ELSE LET n == RuneLen(s, i) IN
              IF n = 0 THEN UFFFD \o EscapeFrom(s, i + 1)
              ELSE IF n = 3 /\ IsLineSep(s, i)
                   THEN <<92, 117, 50, 48, 50, HexDigit(s[i + 2] - 160)>>
                        \o EscapeFrom(s, i + n)
              ELSE SubSeq(s, i, i + n - 1) \o EscapeFrom(s, i + n)

\* a faulty variant: quotes and backslashes are written as they are
EncodeString_NoEscape(s) == <<34>> \o s \o <<34>>

\* the JSON string literal of a Go string (escapeHTML on, as Marshal has it)
EncodeString(s) == <<34>> \o EscapeFrom(s, 1) \o <<34>>

RECURSIVE JoinStrings(_, _)
JoinStrings(ss, i) ==
    IF i > Len(ss) THEN <<>>
    ELSE (IF i > 1 THEN <<44>> ELSE <<>>) \o EncodeString(ss[i])
         \o JoinStrings(ss, i + 1)

-----------------------------------------------------------------------------
(* xrest: values *)

\* the body interface{} of MakeRequest and Post, by dynamic type
StringBody(s)  == [t |-> "string", s |-> s]
IntBody(n)     == [t |-> "int", n |-> n]
StringsBody(l) == [t |-> "strings", l |-> l]   \* []string
ChanBody       == [t |-> "chan"]               \* a channel: no JSON form

\* json.Marshal(body)
Marshal(body) ==
    CASE body.t = "string"  -> [ok |-> TRUE, bytes |-> EncodeString(body.s)]
      [] body.t = "int"     -> [ok |-> TRUE, bytes |-> IntText(body.n)]
      [] body.t = "strings" ->
            [ok |-> TRUE, bytes |-> <<91>> \o JoinStrings(body.l, 1) \o <<93>>]
      [] body.t = "chan"    -> [ok |-> FALSE, bytes |-> <<>>]

\* http.MethodPost, "POST"
MethodPost == <<80, 79, 83, 84>>

\* "A", "A_B"
Methods == {MethodPost, <<65>>, <<65, 95, 66>>}

\* "C", "B_C"
MockURLs == {<<67>>, <<66, 95, 67>>}

\* and ":", which has no scheme before its colon
URLs == MockURLs \cup {<<58>>}

\* "hi", -7, []string{"a\"b"}, a channel
Bodies ==
    {StringBody(<<104, 105>>), IntBody(-7), StringsBody(<< <<97, 34, 98>> >>),
     ChanBody}

Headers == {"headers"}

\* what a registered Mock answers
Canned == {[Response |-> "mockResp", Err |-> Nil],
           [Response |-> Nil, Err |-> "mockErr"]}

Mocks ==
    {[URL |-> u, HTTPMethod |-> m, Response |-> c.Response, Err |-> c.Err] :
        u \in MockURLs, m \in Methods, c \in Canned}

\* what client.Do can give back
Replies == {[resp |-> "netResp", err |-> Nil], [resp |-> Nil, err |-> "netErr"]}

ErrNoMockFound   == "no mock found for given request"
ErrUnsupported   == "json: unsupported type"
ErrNewRequest    == "http.NewRequest failed"

NoRequest == [sent |-> FALSE]

Put(m, k, v) == [x \in (DOMAIN m) \cup {k} |-> IF x = k THEN v ELSE m[x]]

EmptyMap == <<>>

-----------------------------------------------------------------------------
(* xrest: operations *)

RestFrame == UNCHANGED <<concVars, logVars, errVars>>

\* a faulty variant: the method is left out of the id
getMockID_URLOnly(httpMethod, url) == <<95>> \o url

getMockID(httpMethod, url) == httpMethod \o <<95>> \o url

\* net/http validMethod: a non-empty token
IsTokenByte(b) ==
    \/ b >= 48 /\ b <= 57
    \/ b >= 65 /\ b <= 90
    \/ b >= 97 /\ b <= 122
    \/ b \in {33, 35, 36, 37, 38, 39, 42, 43, 45, 46, 94, 95, 96, 124, 126}

\* http.NewRequest succeeds: the method is "" (GET) or a token, and url.Parse
\* accepts the URL (of its rules only "missing protocol scheme", a colon first,
\* can fail on the bytes used here)
RequestBuilds(method, url) ==
    /\ \A i \in 1..Len(method) : IsTokenByte(method[i])
    /\ ~(Len(url) > 0 /\ url[1] = 58)

\* a faulty variant: the registry is consulted whatever the flag says
MockingOn_Always == TRUE

\* if enabledMocks { ... }
MockingOn == enabledMocks

\* The body of "if enabledMocks" in MakeRequest, Post and PostForm:
\*     mock := mocks[getMockID(method, url)]
\*     if mock != nil { return nil, errors.New("no mock found ...") }
\*     return mock.Response, mock.Err
\* A missing key gives the nil pointer, and mock.Response on it is a nil
\* pointer dereference: a run-time panic.
MockLookup(method, url) ==
    LET id == getMockID(method, url) IN
    IF id \in DOMAIN mocks
    THEN [outcome |-> "returned", resp |-> Nil, err |-> ErrNoMockFound,
          wire |-> NoRequest]
    ELSE [outcome |-> "panic", resp |-> Nil, err |-> Nil, wire |-> NoRequest]

\* http.NewRequest, request.Header = headers, client.Do(request)
Send(method, url, payload, headers, reply) ==
    IF ~RequestBuilds(method, url)
    THEN [outcome |-> "returned", resp |-> Nil, err |-> ErrNewRequest,
          wire |-> NoRequest]
    ELSE [outcome |-> "returned", resp |-> reply.resp, err |-> reply.err,
          wire |-> [sent |-> TRUE, method |-> method, url |-> url,
                    payload |-> payload, headers |-> headers]]

\* a faulty variant: every body goes through json.Marshal
Payload_AlwaysMarshal(body) == Marshal(body)

\* if w, ok := body.(string); ok { jsonBytes = []byte(w) }
\* else { jsonBytes, err = json.Marshal(body) }
Payload(body) ==
    IF body.t = "string" THEN [ok |-> TRUE, bytes |-> body.s]
    ELSE Marshal(body)

\* what MakeRequest(method, url, body, headers) gives back
Dispatch(method, url, body, headers, reply) ==
    IF MockingOn THEN MockLookup(method, url)
    ELSE LET p == Payload(body) IN
         IF ~p.ok
         THEN [outcome |-> "returned", resp |-> Nil, err |-> ErrUnsupported,
               wire |-> NoRequest]
         ELSE Send(method, url, p.bytes, headers, reply)

Call(op, method, url, body, headers, reply, res) ==
    [op |-> op, method |-> method, url |-> url, body |-> body,
     headers |-> headers, reply |-> reply, outcome |-> res.outcome,
     resp |-> res.resp, err |-> res.err, wire |-> res.wire]

NoCall(op) == [op |-> op]

StartMockups ==
    /\ enabledMocks' = TRUE
    /\ last' = NoCall("StartMockups")
    /\ UNCHANGED <<mocks, added>>
    /\ RestFrame

\* a faulty variant: stopping also drops the registry
StopMockups_Flushes ==
    /\ enabledMocks' = FALSE
    /\ mocks' = EmptyMap
    /\ last' = NoCall("StopMockups")
    /\ added' = EmptyMap
    /\ RestFrame

StopMockups ==
    /\ enabledMocks' = FALSE
    /\ last' = NoCall("StopMockups")
    /\ UNCHANGED <<mocks, added>>
    /\ RestFrame

FlushMockups ==
    /\ mocks' = EmptyMap
    /\ added' = EmptyMap
    /\ last' = NoCall("FlushMockups")
    /\ UNCHANGED enabledMocks
    /\ RestFrame

AddMock(mock) ==
    LET id == getMockID(mock.HTTPMethod, mock.URL) IN
    /\ id \in DOMAIN mocks \/ Cardinality(DOMAIN mocks) < MaxMocks
    /\ mocks' = Put(mocks, id, mock)
    /\ added' = Put(added, <<mock.HTTPMethod, mock.URL>>, mock)
    /\ last' = [op |-> "AddMock", mock |-> mock]
    /\ UNCHANGED enabledMocks
    /\ RestFrame

MakeRequest(method, url, body, headers, reply) ==
    /\ last' = Call("MakeRequest", method, url, body, headers, reply,
                    Dispatch(method, url, body, headers, reply))
    /\ UNCHANGED <<enabledMocks, mocks, added>>
    /\ RestFrame

\* rest_client.go: MakeRequest with the method fixed to http.MethodPost
Post(url, body, headers, reply) ==
    /\ last' = Call("Post", MethodPost, url, body, headers, reply,
                    Dispatch(MethodPost, url, body, headers, reply))
    /\ UNCHANGED <<enabledMocks, mocks, added>>
    /\ RestFrame

UpperHex(v) == IF v < 10 THEN 48 + v ELSE 65 + (v - 10)

\* url.QueryEscape on one byte
QueryEscapeByte(b) ==
    IF \/ b >= 48 /\ b <= 57
       \/ b >= 65 /\ b <= 90
       \/ b >= 97 /\ b <= 122
       \/ b \in {45, 95, 46, 126}
    THEN <<b>>
    ELSE IF b = 32 THEN <<43>>
    ELSE <<37, UpperHex(b \div 16), UpperHex(b % 16)>>

RECURSIVE QueryEscape(_)
QueryEscape(s) ==
    IF s = <<>> THEN <<>> ELSE QueryEscapeByte(Head(s)) \o QueryEscape(Tail(s))

\* url.Values.Encode: "k=v" joined by "&", sorted by key. A form is a function
\* from one-byte keys to a value.
RECURSIVE EncodeForm(_, _)
EncodeForm(data, keys) ==
    IF keys = {} THEN <<>>
    ELSE LET k == CHOOSE x \in keys : \A y \in keys : x <= y IN
         QueryEscape(<<k>>) \o <<61>> \o QueryEscape(data[k])
         \o (IF keys = {k} THEN <<>> ELSE <<38>>)
         \o EncodeForm(data, keys \ {k})

\* {"a": "1"}, {"b": "x y", "a": "1"}
Forms == {(97 :> <<49>>), (98 :> <<120, 32, 121>>) @@ (97 :> <<49>>)}

PostForm(url, data, headers, reply) ==
    /\ last' = Call("PostForm", MethodPost, url, [t |-> "form", f |-> data],
                    headers, reply,
                    IF MockingOn THEN MockLookup(MethodPost, url)
                    ELSE Send(MethodPost, url, EncodeForm(data, DOMAIN data),
                              headers, reply))
    /\ UNCHANGED <<enabledMocks, mocks, added>>
    /\ RestFrame

RestInit ==
    /\ enabledMocks = FALSE
    /\ mocks = EmptyMap
    /\ last = NoCall("init")
    /\ added = EmptyMap

Next ==
    \/ StartMockups
    \/ StopMockups
    \/ FlushMockups
    \/ \E mock \in Mocks : AddMock(mock)
    \/ \E method \in Methods, url \in URLs, body \in Bodies, headers \in Headers,
          reply \in Replies : MakeRequest(method, url, body, headers, reply)
    \/ \E url \in URLs, body \in Bodies, headers \in Headers, reply \in Replies :
          Post(url, body, headers, reply)
    \/ \E url \in URLs, data \in Forms, headers \in Headers, reply \in Replies :
          PostForm(url, data, headers, reply)


-----------------------------------------------------------------------------
(* xrest: properties *)

IsDispatch == last.op \in {"MakeRequest", "Post", "PostForm"}

lastPair == <<last.method, last.url>>

\* C1: with mocking enabled and a mock registered for (method, url), a
\* dispatch for that method and url returns that mock's Response and Err
\* and sends nothing.
C1_RegisteredMockIsReturned ==
    (IsDispatch /\ enabledMocks /\ lastPair \in DOMAIN added) =>
        /\ last.outcome = "returned"
        /\ last.resp = added[lastPair].Response
        /\ last.err = added[lastPair].Err
        /\ ~last.wire.sent

\* C2: with mocking enabled and no mock registered for (method, url), a
\* dispatch returns the "no mock found" error with a nil response and does not
\* panic; FlushMockups leaves the flag as it was.
C2_MissingMockIsAnError ==
    [][/\ (IsDispatch' /\ enabledMocks' /\ lastPair' \notin DOMAIN added') =>
            /\ last'.outcome = "returned"
            /\ last'.resp = Nil
            /\ last'.err = ErrNoMockFound
       /\ (last'.op = "FlushMockups" => enabledMocks' = enabledMocks)]_vars

\* whether a call with mocking disabled gets as far as client.Do
ReachesTransport(c) ==
    /\ RequestBuilds(c.method, c.url)
    /\ c.body.t /= "chan"

\* C3: while mocking is disabled a dispatch never consults the registry: it
\* goes to the transport and gives back the transport's reply (or fails before
\* sending, on the body or on the request), whatever the registry holds; and
\* StartMockups and StopMockups leave the registry as it was.
C3_RegistryOnlyWhileEnabled ==
    [][/\ (IsDispatch' /\ ~enabledMocks') =>
            /\ last'.outcome = "returned"
            /\ last'.wire.sent = ReachesTransport(last')
            /\ IF ReachesTransport(last')
               THEN last'.resp = last'.reply.resp /\ last'.err = last'.reply.err
               ELSE last'.resp = Nil /\ last'.err \in {ErrUnsupported, ErrNewRequest}
       /\ (last'.op \in {"StartMockups", "StopMockups"} => mocks' = mocks)]_vars

\* C3 witness: mocking is disabled, a mock is registered for the very method
\* and url dispatched, and the call went to the transport.
C3_Witness ==
    /\ IsDispatch
    /\ ~enabledMocks
    /\ lastPair \in DOMAIN added
    /\ getMockID(last.method, last.url) \in DOMAIN mocks
    /\ last.wire.sent
    /\ last.resp = "netResp"

\* the JSON text of the bodies used: -7 and ["a\"b"]
JSONTextOf(body) ==
    CASE body.t = "int" /\ body.n = -7 -> <<45, 55>>
      [] body.t = "strings" /\ body.l = << <<97, 34, 98>> >> ->
            <<91, 34, 97, 92, 34, 98, 34, 93>>

BodyRule(c) ==
    CASE c.body.t = "string" -> c.wire.sent /\ c.wire.payload = c.body.s
      [] c.body.t = "chan"   -> ~c.wire.sent /\ c.err = ErrUnsupported
      [] OTHER -> c.wire.sent /\ c.wire.payload = JSONTextOf(c.body)

\* C6 as claimed: for every call of MakeRequest or Post (with a method and URL
\* a request can be built from), in every state of the registry and the flag:
\* a string body is sent verbatim, another serializable body as its JSON
\* encoding, and a non-serializable body fails with the serialization error
\* and sends nothing.
C6_BodyRuleInEveryState ==
    (last.op \in {"MakeRequest", "Post"} /\ RequestBuilds(last.method, last.url))
        => BodyRule(last)

\* C6 as amended: the same for every call made while mocking is disabled (with
\* a non-serializable body also when no request can be built); while mocking
\* is enabled no call sends a request or fails with the serialization error.
C6_BodyRuleWhileDisabled ==
    last.op \in {"MakeRequest", "Post"} =>
        IF enabledMocks
        THEN ~last.wire.sent /\ last.err /= ErrUnsupported
        ELSE /\ RequestBuilds(last.method, last.url) => BodyRule(last)
             /\ last.body.t = "chan" => BodyRule(last)

\* C6 witness: mocking disabled, a []string body went out as its JSON text.
C6_Witness ==
    /\ last.op = "MakeRequest"
    /\ ~enabledMocks
    /\ last.body.t = "strings"
    /\ last.wire.sent
    /\ last.wire.payload = <<91, 34, 97, 92, 34, 98, 34, 93>>

HasUnderscore(s) == \E i \in 1..Len(s) : s[i] = 95

EachAddedMockIsKept ==
    \A p \in DOMAIN added :
        /\ getMockID(p[1], p[2]) \in DOMAIN mocks
        /\ mocks[getMockID(p[1], p[2])] = added[p]

\* C10 as claimed: distinct (method, url) pairs never share an id, so every
\* mock added since the last flush is still the one stored under its pair's
\* id: no AddMock for another pair has overwritten it.
C10_KeyInjective == EachAddedMockIsKept

\* C10 as amended: the same among pairs whose method holds no "_".
C10_KeyInjectiveWithoutUnderscore ==
    /\ \A m1 \in Methods, m2 \in Methods, u1 \in URLs, u2 \in URLs :
           (/\ ~HasUnderscore(m1) /\ ~HasUnderscore(m2)
            /\ getMockID(m1, u1) = getMockID(m2, u2)) => (m1 = m2 /\ u1 = u2)
    /\ (\A p \in DOMAIN added : ~HasUnderscore(p[1])) => EachAddedMockIsKept

\* C10 witness: mocks for ("A", "B_C") and ("POST", "C") are both registered
\* and both stored.
C10_Witness ==
    /\ <<(<<65>>), (<<66, 95, 67>>)>> \in DOMAIN added
    /\ <<MethodPost, (<<67>>)>> \in DOMAIN added
    /\ Cardinality(DOMAIN mocks) = 2

-----------------------------------------------------------------------------
(* xlogger: values *)

\* zapcore.Level
ZapDebugLevel == -1
ZapInfoLevel  == 0
ZapWarnLevel  == 1
ZapErrorLevel == 2
ZapPanicLevel == 4
ZapFatalLevel == 5

\* the Level constants of the package: "debug", "info", "warning", "error"
DebugLevel   == <<100, 101, 98, 117, 103>>
InfoLevel    == <<105, 110, 102, 111>>
WarningLevel == <<119, 97, 114, 110, 105, 110, 103>>
ErrorLevel   == <<101, 114, 114, 111, 114>>

\* the other strings getLevel knows: "warn", "panic", "fatal"
sWarn  == <<119, 97, 114, 110>>
sPanic == <<112, 97, 110, 105, 99>>
sFatal == <<102, 97, 116, 97, 108>>

\* "stdout", "stderr", a file "f", and "/", which cannot be opened for writing
Stdout  == <<115, 116, 100, 111, 117, 116>>
Stderr  == <<115, 116, 100, 101, 114, 114>>
LogFile == <<102>>
BadPath == <<47>>

\* the level strings given to NewLogger: the seven above, "Error" and ""
LevelStrings ==
    {DebugLevel, InfoLevel, WarningLevel, sWarn, ErrorLevel, sPanic, sFatal,
     <<69, 114, 114, 111, 114>>, <<>>}

\* values of LOG_LEVEL: unset, " WARN ", "Error", "warning", "debug\n", "fatal"
EnvLevels ==
    {<<>>, <<32, 87, 65, 82, 78, 32>>, <<69, 114, 114, 111, 114>>, WarningLevel,
     <<100, 101, 98, 117, 103, 10>>, sFatal}

\* values of LOG_OUTPUT: unset, " ", " f", "/"
EnvOutputs == {<<>>, <<32>>, <<32, 102>>, BadPath}

\* Config values: the zero Config, one file, stdout and a file, a bad path
Configs ==
    {[LogOutputTo |-> <<>>, LoggErrsTo |-> <<>>],
     [LogOutputTo |-> <<LogFile>>, LoggErrsTo |-> <<Stderr>>],
     [LogOutputTo |-> <<Stdout, LogFile>>, LoggErrsTo |-> <<LogFile>>],
     [LogOutputTo |-> <<BadPath>>, LoggErrsTo |-> <<>>]}

Msgs == {<<"m">>}

Errs == {"err"}

IsSpace(b) == b \in {9, 10, 11, 12, 13, 32}

RECURSIVE TrimLeft(_)
TrimLeft(s) ==
    IF s /= <<>> /\ IsSpace(Head(s)) THEN TrimLeft(Tail(s)) ELSE s

RECURSIVE TrimRight(_)
TrimRight(s) ==
    IF s /= <<>> /\ IsSpace(s[Len(s)])
    THEN TrimRight(SubSeq(s, 1, Len(s) - 1)) ELSE s

\* strings.TrimSpace
TrimSpace(s) == TrimRight(TrimLeft(s))

\* strings.ToLower
ToLower(s) == [i \in 1..Len(s) |-> IF s[i] >= 65 /\ s[i] <= 90 THEN s[i] + 32 ELSE s[i]]

-----------------------------------------------------------------------------
(* xlogger: operations *)

LogFrame == UNCHANGED <<restVars, concVars, errVars>>

\* the switch of both getLevel functions
LevelSwitch(s) ==
    CASE s = DebugLevel -> ZapDebugLevel
      [] s = InfoLevel  -> ZapInfoLevel
      [] s = sWarn      -> ZapWarnLevel
      [] s = ErrorLevel -> ZapErrorLevel
      [] s = sPanic     -> ZapPanicLevel
      [] s = sFatal     -> ZapFatalLevel
      [] OTHER          -> ZapInfoLevel

\* logger.go: getLevel(level)
getLevel(level) == LevelSwitch(level)

\* the singleton's getLevel(), on the value of LOG_LEVEL
getLevelEnv(env) == LevelSwitch(ToLower(TrimSpace(env)))

\* getOutput(), on the value of LOG_OUTPUT
getOutput(env) == IF TrimSpace(env) = <<>> THEN Stdout ELSE TrimSpace(env)

Range(q) == {q[i] : i \in 1..Len(q)}

\* logConfig.Build() opens every path
Builds(paths) == BadPath \notin Range(paths)

\* NewLogger(level, config, withMeta); a failed Build gives (nil, error)
NewLogger(level, config) ==
    LET out == IF config.LogOutputTo = <<>> THEN <<Stdout>> ELSE config.LogOutputTo
        errs == IF config.LoggErrsTo = <<>> THEN <<Stderr>> ELSE config.LoggErrsTo
    IN  [variant |-> "instance", given |-> level, ok |-> Builds(out \o errs),
         level |-> getLevel(level), OutputPaths |-> out, ErrorOutputPaths |-> errs]

\* the singleton's init(); a failed Build panics, and no call can follow.
\* zap.Config leaves ErrorOutputPaths empty here.
SingletonInit(envLevel, envOutput) ==
    [variant |-> "singleton", given |-> envLevel,
     ok |-> Builds(<<getOutput(envOutput)>>),
     level |-> getLevelEnv(envLevel), OutputPaths |-> <<getOutput(envOutput)>>,
     ErrorOutputPaths |-> <<>>]

\* a faulty variant: Error logs at debug severity, as Warning does
SeverityOf_ErrorAsDebug(call) ==
    CASE call = "Debug"   -> ZapDebugLevel
      [] call = "Info"    -> ZapInfoLevel
      [] call = "Warning" -> ZapDebugLevel
      [] call = "Error"   -> ZapDebugLevel
      [] call = "Panic"   -> ZapPanicLevel
      [] call = "Fatal"   -> ZapFatalLevel

\* the zap method each operation calls: Warning calls log.Debug
SeverityOf(call) ==
    CASE call = "Debug"   -> ZapDebugLevel
      [] call = "Info"    -> ZapInfoLevel
      [] call = "Warning" -> ZapDebugLevel
      [] call = "Error"   -> ZapErrorLevel
      [] call = "Panic"   -> ZapPanicLevel
      [] call = "Fatal"   -> ZapFatalLevel

\* zap's AtomicLevel.Enabled
Enabled(lvl) == lvl >= logger.level

\* zap's Logger.Debug/Info/Error/Panic/Fatal: an enabled entry is written to
\* every output path; nothing is written to the error output paths
Write(call, msg, fields) ==
    IF Enabled(SeverityOf(call))
    THEN [p \in DOMAIN sinks |->
            IF p \in Range(logger.OutputPaths)
            THEN Append(sinks[p], [call |-> call, level |-> SeverityOf(call),
                                   msg |-> msg, fields |-> fields])
            ELSE sinks[p]]
    ELSE sinks

CanLog == logger.ok /\ alive /\ Len(calls) < MaxCalls

Log(call, msg, fields) ==
    /\ CanLog
    /\ sinks' = Write(call, msg, fields)
    /\ calls' = Append(calls, [call |-> call, msg |-> msg])
    /\ UNCHANGED logger
    /\ LogFrame

Debug(msg) == Log("Debug", msg, <<>>) /\ UNCHANGED alive

Info(msg) == Log("Info", msg, <<>>) /\ UNCHANGED alive

Warning(msg) == Log("Warning", msg, <<>>) /\ UNCHANGED alive

\* tags = append(tags, zap.NamedError("error", err))
Error(msg, err) == Log("Error", msg, <<"error", err>>) /\ UNCHANGED alive

\* the entry is written if enabled, and the call panics either way
Panic(msg, err) == Log("Panic", msg, <<"error", err>>) /\ UNCHANGED alive

\* the entry is written if enabled, and the process exits
Fatal(msg, err) == Log("Fatal", msg, <<"error", err>>) /\ alive' = FALSE

\* l.Info(fmt.Sprintf("%v", v))
PrintCall(v) == Info(<<"Sprintf", "%v">> \o v)

\* l.Info(format) without arguments, l.Info(fmt.Sprintf(format, v...)) with
Printf(format, v) ==
    IF v = <<>> THEN Info(<<format>>) ELSE Info(<<"Sprintf", format>> \o v)

LogInit ==
    /\ logger \in {NewLogger(l, c) : l \in LevelStrings, c \in Configs}
                  \cup {SingletonInit(l, o) : l \in EnvLevels, o \in EnvOutputs}
    /\ sinks = [p \in Range(logger.OutputPaths) \cup Range(logger.ErrorOutputPaths)
                  |-> <<>>]
    /\ calls = <<>>
    /\ alive = logger.ok

NextLog ==
    \/ \E msg \in Msgs : Debug(msg)
    \/ \E msg \in Msgs : Info(msg)
    \/ \E msg \in Msgs : Warning(msg)
    \/ \E msg \in Msgs, err \in Errs : Error(msg, err)
    \/ \E msg \in Msgs, err \in Errs : Panic(msg, err)
    \/ \E msg \in Msgs, err \in Errs : Fatal(msg, err)
    \/ \E v \in {<<"a", "b">>} : PrintCall(v)
    \/ \E format \in {"%s"}, v \in {<<>>, <<"a">>} : Printf(format, v)

LogIdle ==
    /\ logger = Nil
    /\ sinks = <<>>
    /\ calls = <<>>
    /\ alive = TRUE

-----------------------------------------------------------------------------
(* xlogger: properties *)

\* the level string the logger was configured with, as its getLevel reads it
ConfiguredLevel ==
    IF logger.variant = "singleton" THEN ToLower(TrimSpace(logger.given))
    ELSE logger.given

CallsOf(kind) == SelectSeq(calls, LAMBDA c : c.call = kind)

RecordsOf(p, kind) == SelectSeq(sinks[p], LAMBDA r : r.call = kind)

\* every call of this kind made so far has its record in sink p, in order
AllEmitted(p, kind) ==
    /\ Len(RecordsOf(p, kind)) = Len(CallsOf(kind))
    /\ \A i \in 1..Len(CallsOf(kind)) :
           RecordsOf(p, kind)[i].msg = CallsOf(kind)[i].msg

NoneEmitted(kind) == \A p \in DOMAIN sinks : RecordsOf(p, kind) = <<>>

\* C4: a logger configured at level "error" writes no Debug, Info or Warning
\* record to any sink and writes every Error record to its output sinks; a
\* logger configured at level "debug" writes the records of all four.
C4_ErrorAndDebugLevels ==
    logger.ok =>
        /\ ConfiguredLevel = ErrorLevel =>
              /\ \A kind \in {"Debug", "Info", "Warning"} : NoneEmitted(kind)
              /\ \A p \in Range(logger.OutputPaths) : AllEmitted(p, "Error")
        /\ ConfiguredLevel = DebugLevel =>
              \A kind \in {"Debug", "Info", "Warning", "Error"} :
                  \A p \in Range(logger.OutputPaths) : AllEmitted(p, kind)

\* C4 witness: at level "error", a Warning and an Error were logged and the
\* sink holds the Error record alone.
C4_Witness ==
    /\ logger.ok
    /\ ConfiguredLevel = ErrorLevel
    /\ CallsOf("Warning") /= <<>>
    /\ CallsOf("Error") /= <<>>
    /\ \A p \in Range(logger.OutputPaths) :
           Len(sinks[p]) = 1 /\ sinks[p][1].call = "Error"

\* the threshold C5 gives each level string
ClaimedLevel(s) ==
    CASE s = DebugLevel   -> ZapDebugLevel
      [] s = InfoLevel    -> ZapInfoLevel
      [] s = WarningLevel -> ZapWarnLevel
      [] s = sWarn        -> ZapWarnLevel
      [] s = ErrorLevel   -> ZapErrorLevel
      [] s = sPanic       -> ZapPanicLevel
      [] s = sFatal       -> ZapFatalLevel
      [] OTHER            -> ZapInfoLevel

\* C5: "debug", "info", "warning", "warn", "error", "panic" and "fatal" each
\* select their own threshold ("warning" the warning threshold), and every
\* other string selects the info threshold.
C5_LevelParsing == logger.level = ClaimedLevel(ConfiguredLevel)

\* C8: a logger whose Info records are emitted also emits its Warning
\* records, whatever level it is configured at.
C8_WarningAtLeastInfo ==
    logger.ok =>
        \A p \in Range(logger.OutputPaths) :
            RecordsOf(p, "Info") /= <<>> => AllEmitted(p, "Warning")

-----------------------------------------------------------------------------
(* encoding/json: Unmarshal *)

Fail == [ok |-> FALSE]

IsWS(b) == b \in {32, 9, 10, 13}

RECURSIVE SkipWS(_, _)
SkipWS(b, i) == IF i <= Len(b) /\ IsWS(b[i]) THEN SkipWS(b, i + 1) ELSE i

HexVal(c) ==
    IF c >= 48 /\ c <= 57 THEN c - 48
    ELSE IF c >= 97 /\ c <= 102 THEN c - 87
    ELSE IF c >= 65 /\ c <= 70 THEN c - 55
    ELSE -1

\* utf8.EncodeRune
UTF8Encode(cp) ==
    IF cp < 128 THEN <<cp>>
    ELSE IF cp < 2048 THEN <<192 + (cp \div 64), 128 + (cp % 64)>>
    ELSE IF cp < 65536
         THEN <<224 + (cp \div 4096), 128 + ((cp \div 64) % 64), 128 + (cp % 64)>>
    ELSE <<240 + (cp \div 262144), 128 + ((cp \div 4096) % 64),
           128 + ((cp \div 64) % 64), 128 + (cp % 64)>>

\* the four hex digits at b[i..i+3] as a number, or -1
Hex4(b, i) ==
    IF i + 3 > Len(b) \/ \E k \in 0..3 : HexVal(b[i + k]) < 0 THEN -1
    ELSE 4096 * HexVal(b[i]) + 256 * HexVal(b[i + 1]) + 16 * HexVal(b[i + 2])
         + HexVal(b[i + 3])

Prepend(x, r) == IF r.ok THEN [r EXCEPT !.s = x \o @] ELSE r

SimpleEscape(e) ==
    CASE e = 34 -> 34 [] e = 92 -> 92 [] e = 47 -> 47 [] e = 98 -> 8
      [] e = 102 -> 12 [] e = 110 -> 10 [] e = 114 -> 13 [] e = 116 -> 9
      [] OTHER -> -1

Step(bytes, next) == [ok |-> TRUE, bytes |-> bytes, next |-> next]

\* \uXXXX at b[i..i+5], cp its value and lo the value of a \uXXXX that follows
\* it (-1 for none): a surrogate pair is one rune, a lone surrogate is U+FFFD
UnicodeEscape(i, cp, lo) ==
    IF cp < 0 THEN Fail
    ELSE IF cp >= 55296 /\ cp <= 56319 /\ lo >= 56320 /\ lo <= 57343
         THEN Step(UTF8Encode(65536 + (cp - 55296) * 1024 + (lo - 56320)), i + 12)
    ELSE IF cp >= 55296 /\ cp <= 57343 THEN Step(<<239, 191, 189>>, i + 6)
    ELSE Step(UTF8Encode(cp), i + 6)

\* a backslash at b[i]
Escape(b, i) ==
    IF i + 1 > Len(b) THEN Fail
    ELSE IF b[i + 1] = 117
         THEN UnicodeEscape(i, Hex4(b, i + 2),
                            IF i + 7 <= Len(b) /\ b[i + 6] = 92 /\ b[i + 7] = 117
                            THEN Hex4(b, i + 8) ELSE -1)
    ELSE IF SimpleEscape(b[i + 1]) < 0 THEN Fail
    ELSE Step(<<SimpleEscape(b[i + 1])>>, i + 2)

\* bytes of 0x80 and above at b[i]; n is the length of the rune there, 0 for
\* invalid UTF-8, which decodes to U+FFFD (EF BF BD)
RawRune(b, i, n) ==
    IF n = 0 THEN Step(<<239, 191, 189>>, i + 1)
    ELSE Step(SubSeq(b, i, i + n - 1), i + n)

\* what the byte at b[i] inside a string literal decodes to, and where the
\* next one is
StrStep(b, i) ==
    IF b[i] < 32 THEN Fail
    ELSE IF b[i] = 92 THEN Escape(b, i)
    ELSE IF b[i] < 128 THEN Step(<<b[i]>>, i + 1)
    ELSE RawRune(b, i, RuneLen(b, i))

RECURSIVE StrFrom(_, _)

StrAfter(b, st) ==
    IF ~st.ok THEN Fail ELSE Prepend(st.bytes, StrFrom(b, st.next))

\* the scanner's string state and unquote: b[i] is the byte after the opening
\* quote; gives the decoded bytes and the position after the closing quote
StrFrom(b, i) ==
    IF i > Len(b) THEN Fail
    ELSE IF b[i] = 34 THEN [ok |-> TRUE, pos |-> i + 1, s |-> <<>>]
    ELSE StrAfter(b, StrStep(b, i))

IsDigit(c) == c >= 48 /\ c <= 57

RECURSIVE DigitsEnd(_, _)
DigitsEnd(b, i) == IF i <= Len(b) /\ IsDigit(b[i]) THEN DigitsEnd(b, i + 1) ELSE i

RECURSIVE NatOf(_, _, _)
NatOf(b, i, j) == IF j < i THEN 0 ELSE 10 * NatOf(b, i, j - 1) + (b[j] - 48)

\* the number b[i..g-1]: its digits before any fraction are b[d..e-1]
NumValue(b, i, d, e, g) ==
    [ok |-> TRUE, pos |-> g,
     v |-> [k |-> "num", isInt |-> (g = e),
            n |-> (IF d > i THEN -1 ELSE 1) * NatOf(b, d, e - 1)]]

\* the exponent's digits start at x and end before g
NumExpDigits(b, i, d, e, x, g) ==
    IF g = x THEN Fail ELSE NumValue(b, i, d, e, g)

\* after the fraction, at f: ([eE] [+-]? [0-9]+)?
NumExp(b, i, d, e, f) ==
    IF f <= Len(b) /\ b[f] \in {101, 69}
    THEN IF f + 1 <= Len(b) /\ b[f + 1] \in {43, 45}
         THEN NumExpDigits(b, i, d, e, f + 2, DigitsEnd(b, f + 2))
         ELSE NumExpDigits(b, i, d, e, f + 1, DigitsEnd(b, f + 1))
    ELSE NumValue(b, i, d, e, f)

\* the fraction's digits start at e + 1 and end before f
NumFracDigits(b, i, d, e, f) ==
    IF f = e + 1 THEN Fail ELSE NumExp(b, i, d, e, f)

\* after the integer part, at e: (. [0-9]+)?
NumFrac(b, i, d, e) ==
    IF e = d THEN Fail
    ELSE IF e <= Len(b) /\ b[e] = 46
         THEN NumFracDigits(b, i, d, e, DigitsEnd(b, e + 1))
    ELSE NumExp(b, i, d, e, e)

\* the integer part, at d: 0 | [1-9][0-9]*
NumInt(b, i, d) ==
    IF d <= Len(b) /\ b[d] = 48 THEN NumFrac(b, i, d, d + 1)
    ELSE NumFrac(b, i, d, DigitsEnd(b, d))

\* a JSON number at b[i]: -? (0 | [1-9][0-9]*) (. [0-9]+)? ([eE] [+-]? [0-9]+)?
ParseNumber(b, i) == NumInt(b, i, IF b[i] = 45 THEN i + 1 ELSE i)

Lit(b, i, text) ==
    i + Len(text) - 1 <= Len(b) /\ SubSeq(b, i, i + Len(text) - 1) = text

RECURSIVE ParseValue(_, _)
RECURSIVE ParseMembers(_, _)
RECURSIVE ParseElements(_, _)

ObjectOf(r) ==
    IF r.ok
    THEN [ok |-> TRUE, pos |-> r.pos, v |-> [k |-> "obj", members |-> r.members]]
    ELSE Fail

\* after "{" and white space
ObjectAt(b, j) ==
    IF j <= Len(b) /\ b[j] = 125
    THEN [ok |-> TRUE, pos |-> j + 1, v |-> [k |-> "obj", members |-> <<>>]]
    ELSE ObjectOf(ParseMembers(b, j))

ArrayOf(r) ==
    IF r.ok THEN [ok |-> TRUE, pos |-> r.pos, v |-> [k |-> "arr"]] ELSE Fail

\* after "[" and white space
ArrayAt(b, j) ==
    IF j <= Len(b) /\ b[j] = 93
    THEN [ok |-> TRUE, pos |-> j + 1, v |-> [k |-> "arr"]]
    ELSE ArrayOf(ParseElements(b, j))

StringOf(r) ==
    IF r.ok THEN [ok |-> TRUE, pos |-> r.pos, v |-> [k |-> "str", s |-> r.s]]
    ELSE Fail

ValueAt(b, i) ==
    IF i > Len(b) THEN Fail
    ELSE IF b[i] = 123 THEN ObjectAt(b, SkipWS(b, i + 1))
    ELSE IF b[i] = 91 THEN ArrayAt(b, SkipWS(b, i + 1))
    ELSE IF b[i] = 34 THEN StringOf(StrFrom(b, i + 1))
    ELSE IF Lit(b, i, BoolText(TRUE))
         THEN [ok |-> TRUE, pos |-> i + 4, v |-> [k |-> "bool", b |-> TRUE]]
    ELSE IF Lit(b, i, BoolText(FALSE))
         THEN [ok |-> TRUE, pos |-> i + 5, v |-> [k |-> "bool", b |-> FALSE]]
    ELSE IF Lit(b, i, NullText)
         THEN [ok |-> TRUE, pos |-> i + 4, v |-> [k |-> "null"]]
    ELSE IF b[i] = 45 \/ IsDigit(b[i]) THEN ParseNumber(b, i)
    ELSE Fail

\* one JSON value, leading white space skipped
ParseValue(b, i) == ValueAt(b, SkipWS(b, i))

MoreMembers(m, r) == IF r.ok THEN [r EXCEPT !.members = <<m>> \o @] ELSE Fail

\* after a member m and white space: "}" or "," and more members
MemberEnd(b, m, e) ==
    IF e > Len(b) THEN Fail
    ELSE IF b[e] = 125 THEN [ok |-> TRUE, pos |-> e + 1, members |-> <<m>>]
    ELSE IF b[e] = 44 THEN MoreMembers(m, ParseMembers(b, SkipWS(b, e + 1)))
    ELSE Fail

MemberValue(b, key, val) ==
    IF ~val.ok THEN Fail
    ELSE MemberEnd(b, [key |-> key, val |-> val.v], SkipWS(b, val.pos))

\* after a key and white space: ":" and the value
MemberColon(b, key, c) ==
    IF c > Len(b) \/ b[c] /= 58 THEN Fail
    ELSE MemberValue(b, key, ParseValue(b, c + 1))

MemberKey(b, key) ==
    IF ~key.ok THEN Fail ELSE MemberColon(b, key.s, SkipWS(b, key.pos))

\* "key" : value ( , "key" : value )* }
ParseMembers(b, i) ==
    IF i > Len(b) \/ b[i] /= 34 THEN Fail ELSE MemberKey(b, StrFrom(b, i + 1))

\* after an element and white space: "]" or "," and more elements
ElementEnd(b, e) ==
    IF e > Len(b) THEN Fail
    ELSE IF b[e] = 93 THEN [ok |-> TRUE, pos |-> e + 1]
    ELSE IF b[e] = 44 THEN ParseElements(b, e + 1)
    ELSE Fail

ElementValue(b, val) ==
    IF ~val.ok THEN Fail ELSE ElementEnd(b, SkipWS(b, val.pos))

\* value ( , value )* ]
ParseElements(b, i) == ElementValue(b, ParseValue(b, i))

WholeInput(b, r) == IF r.ok /\ SkipWS(b, r.pos) > Len(b) THEN r ELSE Fail

\* checkValid and the decoder's walk: one value, then only white space
ParseDocument(b) == WholeInput(b, ParseValue(b, 1))

-----------------------------------------------------------------------------
(* xerrors *)

ErrFrame == UNCHANGED <<restVars, concVars, logVars>>

\* net/http status codes
StatusBadRequest          == 400
StatusUnauthorized        == 401
StatusNotFound            == 404
StatusInternalServerError == 500

\* the json tags of restErr: "error", "status_code", "message"
TagError      == <<101, 114, 114, 111, 114>>
TagStatusCode == <<115, 116, 97, 116, 117, 115, 95, 99, 111, 100, 101>>
TagMessage    == <<109, 101, 115, 115, 97, 103, 101>>

\* type restErr struct
restErr(e, status, message) ==
    [ErrError |-> e, ErrStatusCode |-> status, ErrMessage |-> message]

NewRestError(status, message) == restErr(TRUE, status, message)

NewBadRequestError(message) == restErr(TRUE, StatusBadRequest, message)

NewNotFoundError(message) == restErr(TRUE, StatusNotFound, message)

NewUnauthorizedError(message) == restErr(TRUE, StatusUnauthorized, message)

NewInternalServerError(message) == restErr(TRUE, StatusInternalServerError, message)

\* json.Marshal of a restErr: the fields in declaration order, under their tags
MarshalRestErr(e) ==
    <<123>> \o EncodeString(TagError) \o <<58>> \o BoolText(e.ErrError)
    \o <<44>> \o EncodeString(TagStatusCode) \o <<58>> \o IntText(e.ErrStatusCode)
    \o <<44>> \o EncodeString(TagMessage) \o <<58>> \o EncodeString(e.ErrMessage)
    \o <<125>>

\* a key names a field when it equals the tag, or does so ignoring case
Names(key, tag) == key = tag \/ ToLower(key) = tag

\* one member decoded into the struct: a JSON null leaves the field as it is,
\* a value of another type than the field's is an UnmarshalTypeError
\* (the decoder goes on and reports it at the end)
SetField(st, m) ==
    IF m.val.k = "null" THEN st
    ELSE IF Names(m.key, TagError)
         THEN IF m.val.k = "bool" THEN [st EXCEPT !.val.ErrError = m.val.b]
              ELSE [st EXCEPT !.ok = FALSE]
    ELSE IF Names(m.key, TagStatusCode)
         THEN IF m.val.k = "num" /\ m.val.isInt
              THEN [st EXCEPT !.val.ErrStatusCode = m.val.n]
              ELSE [st EXCEPT !.ok = FALSE]
    ELSE IF Names(m.key, TagMessage)
         THEN IF m.val.k = "str" THEN [st EXCEPT !.val.ErrMessage = m.val.s]
              ELSE [st EXCEPT !.ok = FALSE]
    ELSE st

RECURSIVE SetFields(_, _, _)
SetFields(st, members, i) ==
    IF i > Len(members) THEN st
    ELSE SetFields(SetField(st, members[i]), members, i + 1)

ZeroValue == [ok |-> TRUE, val |-> restErr(FALSE, 0, <<>>)]

\* the document decoded into apiErr: null leaves it as it is, an object sets
\* its fields, anything else is an UnmarshalTypeError
DecodeInto(doc) ==
    IF ~doc.ok THEN [ZeroValue EXCEPT !.ok = FALSE]
    ELSE IF doc.v.k = "null" THEN ZeroValue
    ELSE IF doc.v.k /= "obj" THEN [ZeroValue EXCEPT !.ok = FALSE]
    ELSE SetFields(ZeroValue, doc.v.members, 1)

\* json.Unmarshal(bytes, &apiErr) with apiErr the zero restErr
Unmarshal(bytes) == DecodeInto(ParseDocument(bytes))

ErrInvalidJSON == "invalid error json response"

ResultOf(r) ==
    IF r.ok THEN [ok |-> TRUE, val |-> r.val, err |-> Nil]
    ELSE [ok |-> FALSE, err |-> ErrInvalidJSON]

\* NewRestErrorFromBytes(bytes): (apiErr, nil) or (nil, error)
NewRestErrorFromBytes(bytes) == ResultOf(Unmarshal(bytes))

\* message bytes: 'a', '"', '\', '<', and 0xC3, 0xA9, 0xFF (C3 A9 is U+00E9;
\* each of the three alone is not valid UTF-8)
MsgBytes == {97, 34, 92, 60, 195, 169, 255}

RECURSIVE SeqsUpTo(_, _)
SeqsUpTo(S, n) ==
    IF n = 0 THEN {<<>>}
    ELSE LET shorter == SeqsUpTo(S, n - 1) IN
         shorter \cup {Append(q, x) : q \in shorter, x \in S}

Messages == SeqsUpTo(MsgBytes, MaxMsgLen)

Statuses ==
    {StatusBadRequest, StatusUnauthorized, StatusNotFound,
     StatusInternalServerError, 0, -1}

\* payloads from elsewhere: "", "null", "{}", "[]", "{",
\* {"error":true,"status_code":404,"message":"a"} with white space,
\* {"Message":"\u00e9\n","x":[1,{"y":null}]}, {"status_code":"404"},
\* {"status_code":4.5}, {"message":"a"}x, {"message":"\ud83d\ude00"},
\* {"error":false,"status_code":-1,"message":"\\"}
Payloads ==
    {MarshalRestErr(restErr(FALSE, -1, <<92>>)), <<>>, NullText, <<123, 125>>, <<91, 93>>, <<123>>,
     <<32, 123>> \o EncodeString(TagError) \o <<32, 58, 32>> \o BoolText(TRUE)
        \o <<44, 10>> \o EncodeString(TagStatusCode) \o <<58, 52, 48, 52, 44>>
        \o EncodeString(TagMessage) \o <<58, 34, 97, 34, 32, 125, 10>>,
     <<123, 34, 77, 101, 115, 115, 97, 103, 101, 34, 58, 34, 92, 117, 48, 48,
       101, 57, 92, 110, 34, 44, 34, 120, 34, 58, 91, 49, 44, 123, 34, 121, 34,
       58, 110, 117, 108, 108, 125, 93, 125>>,
     <<123>> \o EncodeString(TagStatusCode) \o <<58, 34, 52, 48, 52, 34, 125>>,
     <<123>> \o EncodeString(TagStatusCode) \o <<58, 52, 46, 53, 125>>,
     <<123>> \o EncodeString(TagMessage) \o <<58, 34, 97, 34, 125, 120>>,
     <<123>> \o EncodeString(TagMessage)
        \o <<58, 34, 92, 117, 100, 56, 51, 100, 92, 117, 100, 101, 48, 48, 34, 125>>}

\* a restErr value is made by a constructor
Construct ==
    /\ errPc \in {"idle", "roundtrip", "parsed"}
    /\ \E status \in Statuses, message \in Messages :
          errVal' \in {NewRestError(status, message), NewBadRequestError(message),
                       NewNotFoundError(message), NewUnauthorizedError(message),
                       NewInternalServerError(message)}
    /\ errBytes' = <<>>
    /\ errParsed' = [ok |-> FALSE, err |-> Nil]
    /\ errPc' = "built"
    /\ ErrFrame

\* bytes from elsewhere are read
ParsePayload ==
    /\ errPc \in {"idle", "roundtrip", "parsed"}
    /\ \E payload \in Payloads :
          /\ errBytes' = payload
          /\ errParsed' = NewRestErrorFromBytes(payload)
    /\ errVal' = restErr(FALSE, 0, <<>>)
    /\ errPc' = "parsed"
    /\ ErrFrame

\* the value read is the value now held (this is how a RestErr with Error()
\* false comes to be)
Keep ==
    /\ errPc = "parsed"
    /\ errParsed.ok
    /\ errVal' = errParsed.val
    /\ errBytes' = <<>>
    /\ errParsed' = [ok |-> FALSE, err |-> Nil]
    /\ errPc' = "built"
    /\ ErrFrame

\* the value is written as JSON
Serialize ==
    /\ errPc = "built"
    /\ errBytes' = MarshalRestErr(errVal)
    /\ errPc' = "serialized"
    /\ UNCHANGED <<errVal, errParsed>>
    /\ ErrFrame

\* the JSON just written is read back
ParseBack ==
    /\ errPc = "serialized"
    /\ errParsed' = NewRestErrorFromBytes(errBytes)
    /\ errPc' = "roundtrip"
    /\ UNCHANGED <<errVal, errBytes>>
    /\ ErrFrame

NextErr ==
    \/ Construct
    \/ ParsePayload
    \/ Keep
    \/ Serialize
    \/ ParseBack

-----------------------------------------------------------------------------
(* xerrors: properties *)

\* the value read back has the Error(), StatusCode() and Message() of errVal
ReadBackEqual ==
    /\ errParsed.ok
    /\ errParsed.val.ErrError = errVal.ErrError
    /\ errParsed.val.ErrStatusCode = errVal.ErrStatusCode
    /\ errParsed.val.ErrMessage = errVal.ErrMessage

\* C7 as claimed: every RestErr value, written as JSON and read back with
\* NewRestErrorFromBytes, gives an equal value.
C7_RoundTrip == errPc = "roundtrip" => ReadBackEqual

\* C7 as amended: so does every RestErr value whose message is valid UTF-8.
C7_RoundTripValidUTF8 ==
    (errPc = "roundtrip" /\ ValidUTF8(errVal.ErrMessage)) => ReadBackEqual

\* C7 witness: a 404 value whose message is a quote and a backslash has come
\* back equal.
C7_Witness ==
    /\ errPc = "roundtrip"
    /\ errVal.ErrMessage = <<34, 92>>
    /\ errVal.ErrStatusCode = StatusNotFound
    /\ ReadBackEqual

-----------------------------------------------------------------------------
(* xrest with several goroutines.  Nothing in the package orders two calls:  *)
(* each call is the sequence of its reads and writes of enabledMocks, of the *)
(* variable mocks and of the map it points to.  A map read or write takes    *)
(* time (it begins and ends); two of them on one map at once, one a write,   *)
(* are a data race, after which the Go runtime may throw "concurrent map     *)
(* writes" / "concurrent map read and map write", may lose the write, or may *)
(* go on as if nothing had happened.                                         *)

ConcFrame == UNCHANGED <<restVars, logVars, errVars>>

Goroutines == {"g1", "g2"}

\* the mocks and the requests of the goroutines: POST C and POST B_C
ConcMocks ==
    {[URL |-> <<67>>, HTTPMethod |-> MethodPost, Response |-> "mockResp", Err |-> Nil],
     [URL |-> <<66, 95, 67>>, HTTPMethod |-> MethodPost, Response |-> Nil,
      Err |-> "mockErr"]}

Idle == [op |-> "none"]


\* a variant with a lock: one mutex is held from the start of a call to its end
MayStep_Mutex(g) == ~cCrashed /\ \A h \in Goroutines \ {g} : cPc[h] = "idle"

\* a goroutine takes its next step whenever the process is alive: var
\* enabledMocks and var mocks are plain package variables, with no lock
MayStep(g) == ~cCrashed

InMapWrite(g) == cPc[g] = "add_writing"

InMapRead(g) == cPc[g] = "disp_reading"

\* the goroutines that are inside a read or write of map a which conflicts
\* with an access of the given kind
Conflicting(g, a, write) ==
    {h \in Goroutines \ {g} :
        /\ InMapWrite(h) \/ (write /\ InMapRead(h))
        /\ cLocal[h].map = a}

\* g begins an access: it and every conflicting access in progress have raced
MarkRaced(g, a, write, local) ==
    [h \in Goroutines |->
        IF h = g THEN [local EXCEPT !.raced = Conflicting(g, a, write) /= {}]
        ELSE IF h \in Conflicting(g, a, write) THEN [cLocal[h] EXCEPT !.raced = TRUE]
        ELSE cLocal[h]]

ConcStartMockups(g) ==
    /\ MayStep(g)
    /\ cPc[g] = "idle"
    /\ cEnabled' = TRUE
    /\ cLocal' = [cLocal EXCEPT ![g] = Idle]
    /\ UNCHANGED <<cMocksVar, cHeap, cPc, cCrashed>>
    /\ ConcFrame

ConcStopMockups(g) ==
    /\ MayStep(g)
    /\ cPc[g] = "idle"
    /\ cEnabled' = FALSE
    /\ cLocal' = [cLocal EXCEPT ![g] = Idle]
    /\ UNCHANGED <<cMocksVar, cHeap, cPc, cCrashed>>
    /\ ConcFrame

\* FlushMockups: make(map[string]*Mock) ...
FlushMake(g) ==
    /\ MayStep(g)
    /\ cPc[g] = "idle"
    /\ Len(cHeap) < MaxMaps
    /\ cHeap' = Append(cHeap, EmptyMap)
    /\ cLocal' = [cLocal EXCEPT ![g] = [op |-> "FlushMockups", map |-> Len(cHeap) + 1]]
    /\ cPc' = [cPc EXCEPT ![g] = "flush_made"]
    /\ UNCHANGED <<cEnabled, cMocksVar, cCrashed>>
    /\ ConcFrame

\* ... and mocks = the new map
FlushStore(g) ==
    /\ MayStep(g)
    /\ cPc[g] = "flush_made"
    /\ cMocksVar' = cLocal[g].map
    /\ cLocal' = [cLocal EXCEPT ![g] = Idle]
    /\ cPc' = [cPc EXCEPT ![g] = "idle"]
    /\ UNCHANGED <<cEnabled, cHeap, cCrashed>>
    /\ ConcFrame

\* AddMock: the read of var mocks ...
AddLoad(g, mock) ==
    /\ MayStep(g)
    /\ cPc[g] = "idle"
    /\ cLocal' = [cLocal EXCEPT ![g] =
                    [op |-> "AddMock", map |-> cMocksVar, mock |-> mock,
                     raced |-> FALSE]]
    /\ cPc' = [cPc EXCEPT ![g] = "add_loaded"]
    /\ UNCHANGED <<cEnabled, cMocksVar, cHeap, cCrashed>>
    /\ ConcFrame

\* ... the map assignment begins ...
AddBegin(g) ==
    /\ MayStep(g)
    /\ cPc[g] = "add_loaded"
    /\ cLocal' = MarkRaced(g, cLocal[g].map, TRUE, cLocal[g])
    /\ cPc' = [cPc EXCEPT ![g] = "add_writing"]
    /\ UNCHANGED <<cEnabled, cMocksVar, cHeap, cCrashed>>
    /\ ConcFrame

\* ... and ends: the entry is in the map, unless the write has raced
AddEnd(g) ==
    /\ MayStep(g)
    /\ cPc[g] = "add_writing"
    /\ LET l == cLocal[g]
           stored == [cHeap EXCEPT ![l.map] =
                         Put(@, getMockID(l.mock.HTTPMethod, l.mock.URL), l.mock)]
       IN  \/ cHeap' = stored /\ UNCHANGED cCrashed
           \/ l.raced /\ UNCHANGED cHeap /\ UNCHANGED cCrashed
           \/ l.raced /\ UNCHANGED cHeap /\ cCrashed' = TRUE
    /\ cLocal' = [cLocal EXCEPT ![g] = Idle]
    /\ cPc' = [cPc EXCEPT ![g] = "idle"]
    /\ UNCHANGED <<cEnabled, cMocksVar>>
    /\ ConcFrame

\* MakeRequest, Post, PostForm: the read of enabledMocks; with mocking
\* disabled the call goes to the transport and touches the registry no more
DispatchFlag(g, method, url) ==
    /\ MayStep(g)
    /\ cPc[g] = "idle"
    /\ IF cEnabled
       THEN /\ cLocal' = [cLocal EXCEPT ![g] =
                            [op |-> "dispatch", method |-> method, url |-> url,
                             map |-> 0, raced |-> FALSE]]
            /\ cPc' = [cPc EXCEPT ![g] = "disp_enabled"]
       ELSE /\ cLocal' = [cLocal EXCEPT ![g] = [op |-> "none", result |-> "transport"]]
            /\ UNCHANGED cPc
    /\ UNCHANGED <<cEnabled, cMocksVar, cHeap, cCrashed>>
    /\ ConcFrame

\* the read of var mocks ...
DispatchLoad(g) ==
    /\ MayStep(g)
    /\ cPc[g] = "disp_enabled"
    /\ cLocal' = [cLocal EXCEPT ![g].map = cMocksVar]
    /\ cPc' = [cPc EXCEPT ![g] = "disp_loaded"]
    /\ UNCHANGED <<cEnabled, cMocksVar, cHeap, cCrashed>>
    /\ ConcFrame

\* ... the map lookup begins ...
DispatchBegin(g) ==
    /\ MayStep(g)
    /\ cPc[g] = "disp_loaded"
    /\ cLocal' = MarkRaced(g, cLocal[g].map, FALSE, cLocal[g])
    /\ cPc' = [cPc EXCEPT ![g] = "disp_reading"]
    /\ UNCHANGED <<cEnabled, cMocksVar, cHeap, cCrashed>>
    /\ ConcFrame

\* ... and ends: a mock found gives the "no mock found" error, none found the
\* nil dereference; a lookup that has raced may see either, or crash
DispatchEnd(g) ==
    /\ MayStep(g)
    /\ cPc[g] = "disp_reading"
    /\ LET l == cLocal[g]
           found == getMockID(l.method, l.url) \in DOMAIN cHeap[l.map]
       IN  \/ /\ cLocal' = [cLocal EXCEPT ![g] =
                    [op |-> "none",
                     result |-> IF found THEN ErrNoMockFound ELSE "panic"]]
              /\ UNCHANGED cCrashed
           \/ /\ l.raced
              /\ cLocal' = [cLocal EXCEPT ![g] = [op |-> "none", result |-> "panic"]]
              /\ UNCHANGED cCrashed
           \/ /\ l.raced
              /\ cLocal' = [cLocal EXCEPT ![g] = Idle]
              /\ cCrashed' = TRUE
    /\ cPc' = [cPc EXCEPT ![g] = "idle"]
    /\ UNCHANGED <<cEnabled, cMocksVar, cHeap>>
    /\ ConcFrame

GoNext(g) ==
    \/ ConcStartMockups(g)
    \/ ConcStopMockups(g)
    \/ FlushMake(g)
    \/ FlushStore(g)
    \/ \E mock \in ConcMocks : AddLoad(g, mock)
    \/ AddBegin(g)
    \/ AddEnd(g)
    \/ \E mock \in ConcMocks : DispatchFlag(g, mock.HTTPMethod, mock.URL)
    \/ DispatchLoad(g)
    \/ DispatchBegin(g)
    \/ DispatchEnd(g)

NextConc == \E g \in Goroutines : GoNext(g)

\* var enabledMocks = false, mocks = make(map[string]*Mock); no call under way
ConcInit ==
    /\ cEnabled = FALSE
    /\ cMocksVar = 1
    /\ cHeap = <<EmptyMap>>
    /\ cPc = [g \in Goroutines |-> "idle"]
    /\ cLocal = [g \in Goroutines |-> Idle]
    /\ cCrashed = FALSE

-----------------------------------------------------------------------------
(* xrest with several goroutines: properties *)

\* two goroutines are inside an access of one map at once, one of them a write
RaceOn(g, h) ==
    /\ g /= h
    /\ InMapWrite(g)
    /\ InMapWrite(h) \/ InMapRead(h)
    /\ cLocal[g].map = cLocal[h].map

\* C9: nothing orders the calls of different goroutines: whatever the others
\* are in the middle of, a goroutine's next step (starting a call, or the next
\* read or write of the call it is in) can be taken.
C9_NoMutualExclusion ==
    ~cCrashed => \A g \in Goroutines : ENABLED GoNext(g)

\* C9 witness: an AddMock is writing the current map while another goroutine's
\* dispatch is looking up in it.
C9_Witness ==
    /\ RaceOn("g1", "g2")
    /\ InMapRead("g2")
    /\ cLocal["g1"].map = cMocksVar
    /\ cLocal["g1"].raced /\ cLocal["g2"].raced

-----------------------------------------------------------------------------
ErrInit ==
    /\ errVal = restErr(FALSE, 0, <<>>)
    /\ errBytes = <<>>
    /\ errParsed = [ok |-> FALSE, err |-> Nil]
    /\ errPc = "idle"

Init == RestInit /\ ConcInit /\ LogIdle /\ ErrInit

Spec == Init /\ [][Next]_vars

InitLog == LogInit /\ RestInit /\ ConcInit /\ ErrInit

SpecLog == InitLog /\ [][NextLog]_vars

InitErr == ErrInit /\ RestInit /\ ConcInit /\ LogIdle

InitConc == ConcInit /\ RestInit /\ LogIdle /\ ErrInit

SpecConc == InitConc /\ [][NextConc]_vars

SpecErr == InitErr /\ [][NextErr]_vars

=============================================================================
